---- MODULE Spec2Model ----
(***************************************************************************)
(* Model of src/speech.py: speak(text, lang, tld) builds a gTTS request,   *)
(* saves the synthesized audio to "__text_output.mp3" and runs ffplay on   *)
(* it through os.system; the __main__ block reads one line from stdin and  *)
(* calls speak(line, "fr", "fr").                                          *)
(*                                                                         *)
(* One invocation of speak is a sequence of steps of a thread t:           *)
(*   Call (line 4), Ctor (line 5), SaveOpen / SaveRequest / SaveWrite /    *)
(*   SaveClose (line 6), PlayLaunch / PlayerRead / PlayerExit / PlayWait   *)
(*   (line 7), Return or Raise.                                            *)
(* The steps inside gTTS(...), gTTS.save and os.system follow what those   *)
(* library calls do: the constructor asserts the text and checks the       *)
(* language, save opens the file "wb" (truncating it) BEFORE any network   *)
(* request is sent, os.system waits for the shell command and returns its  *)
(* wait status instead of raising.                                         *)
(***************************************************************************)
EXTENDS Integers, Sequences, FiniteSets, TLC

\* ---------------------------------------------------------------- bounds
\* calls of speak one caller thread makes in the sequential specification
MaxCalls == 2
\* lines available on standard input in a direct run
MaxStdin == 2

\* ------------------------------------------------------- program literals
OutputFile == "__text_output.mp3"
\* the literal of line 6
SavePath == OutputFile
\* defaults of the signature of speak (line 4)
DefaultLang == "en"
DefaultTld == ""
\* literals of the direct-execution call (line 10)
MainLang == "fr"
MainTld == "fr"

\* variant: the file name is built from an argument of the call
PlayerCommandMutLang(a) == <<"ffplay", "-v", "0", "-nodisp", "-autoexit", a.lang>>
\* the command of line 7 as the shell splits it into words, for the arguments a
\* of the invocation
PlayerCommand(a) == <<"ffplay", "-v", "0", "-nodisp", "-autoexit", "__text_output.mp3">>

\* ------------------------------------------------------------ input sets
Threads == {1, 2}
\* texts are sequences of characters
PunctChars == {"!", "?", " "}
TextInputs == {<<>>, <<"!">>, <<"h", "i">>, <<"y", "o">>}
\* languages the synthesis library knows ("zz" is not one of them)
SupportedLangs == {"en", "fr"}
LangInputs == {DefaultLang, "zz"}
TldInputs == {DefaultTld, "fr"}

\* the text has something to pronounce once punctuation and blanks are dropped
HasSpeech(text) == \E i \in 1..Len(text) : text[i] \notin PunctChars

\* the audio the service returns for a request: opaque, determined by the request
Synth(a) == [text |-> a.text, lang |-> a.lang, tld |-> a.tld]

NoArgs == [text |-> <<>>, lang |-> "", tld |-> ""]
NoFs == [p \in {} |-> <<>>]
StaleAudio == [text |-> <<"o", "l", "d">>, lang |-> "en", tld |-> ""]

\* wait status os.system returns for an exit code
WaitStatus(code) == code * 256
ShellNotFound == 127

VARIABLES
  mode,       \* "main": run directly; "import": speak called by importing code
  mainpc,     \* position of the __main__ block
  stdin,      \* lines not yet read from standard input
  stdin0,     \* the lines standard input held at start
  exitCode,   \* exit status of the direct run, -1 while running
  ffplayInstalled, \* ffplay is on the executable search path
  writable,   \* the working directory accepts the file write
  fs,         \* file system: path -> sequence of audio chunks
  pc,         \* per thread: position inside speak
  args,       \* per thread: arguments of the current invocation
  exc,        \* per thread: exception raised in the current invocation
  fstate,     \* per thread: the invocation's file write: none / open / closed
  player,     \* per thread: the player process: none / notfound / running / played / exited
  cmd,        \* per thread: argv of the launched command
  atLaunch,   \* per thread: file system as it was when the player was launched
  played,     \* per thread: what the player read from the file
  status,     \* per thread: value os.system returned, -1 before
  outcome,    \* per thread: none / returned / raised
  prev,       \* per thread: outcome and arguments of the previous invocation
  ncalls,     \* per thread: invocations started
  steps,      \* per thread: requests, opens, writes, launches of the invocation
  clobbered   \* per thread: another invocation opened or wrote the file between
              \* this invocation's open and its player's read

envVars == <<ffplayInstalled, writable>>
mainVars == <<mode, mainpc, stdin, stdin0, exitCode>>
invVars == <<pc, args, exc, fstate, player, cmd, atLaunch, played, status,
             outcome, prev, ncalls, steps, clobbered>>
vars == <<mode, mainpc, stdin, stdin0, exitCode, ffplayInstalled, writable, fs,
          pc, args, exc, fstate, player, cmd, atLaunch, played, status,
          outcome, prev, ncalls, steps, clobbered>>

NoSteps == [req |-> 0, open |-> 0, write |-> 0, launch |-> 0, off |-> 0]
NoPrev == [outcome |-> "none", args |-> NoArgs]

ReadFile(f, p) == IF p \in DOMAIN f THEN f[p] ELSE <<>>
FileExists(f, p) == p \in DOMAIN f
WriteFile(f, p, c) == [q \in (DOMAIN f) \cup {p} |-> IF q = p THEN c ELSE f[q]]

\* thread t touches the file: every other invocation that has opened it and
\* whose player has not read it yet is interfered with
Interfere(t) ==
  [u \in Threads |-> IF /\ u # t
                         /\ fstate[u] # "none"
                         /\ player[u] \in {"none", "running"}
                      THEN TRUE ELSE clobbered[u]]

SeqsUpTo(S, n) == UNION {[1..k -> S] : k \in 0..n}

InitThreads ==
  /\ pc = [t \in Threads |-> "idle"]
  /\ args = [t \in Threads |-> NoArgs]
  /\ exc = [t \in Threads |-> "none"]
  /\ fstate = [t \in Threads |-> "none"]
  /\ player = [t \in Threads |-> "none"]
  /\ cmd = [t \in Threads |-> <<>>]
  /\ atLaunch = [t \in Threads |-> NoFs]
  /\ played = [t \in Threads |-> <<>>]
  /\ status = [t \in Threads |-> -1]
  /\ outcome = [t \in Threads |-> "none"]
  /\ prev = [t \in Threads |-> NoPrev]
  /\ ncalls = [t \in Threads |-> 0]
  /\ steps = [t \in Threads |-> NoSteps]
  /\ clobbered = [t \in Threads |-> FALSE]

InitEnv ==
  /\ ffplayInstalled \in BOOLEAN
  /\ writable \in BOOLEAN
  /\ fs \in {NoFs, WriteFile(NoFs, OutputFile, <<StaleAudio>>)}

Init ==
  /\ InitEnv
  /\ InitThreads
  /\ mode \in {"main", "import"}
  /\ mainpc = IF mode = "main" THEN "input" ELSE "off"
  /\ stdin \in (IF mode = "main" THEN SeqsUpTo(TextInputs, MaxStdin) ELSE {<<>>})
  /\ stdin0 = stdin
  /\ exitCode = -1

\* ------------------------------------------------------------ speak, line 4
\* entry of speak(text, lang, tld): a fresh invocation of thread t
Enter(t, text, lang, tld) ==
  /\ pc[t] = "idle"
  /\ pc' = [pc EXCEPT ![t] = "ctor"]
  /\ args' = [args EXCEPT ![t] = [text |-> text, lang |-> lang, tld |-> tld]]
  /\ prev' = [prev EXCEPT ![t] = [outcome |-> outcome[t], args |-> args[t]]]
  /\ exc' = [exc EXCEPT ![t] = "none"]
  /\ fstate' = [fstate EXCEPT ![t] = "none"]
  /\ player' = [player EXCEPT ![t] = "none"]
  /\ cmd' = [cmd EXCEPT ![t] = <<>>]
  /\ atLaunch' = [atLaunch EXCEPT ![t] = NoFs]
  /\ played' = [played EXCEPT ![t] = <<>>]
  /\ status' = [status EXCEPT ![t] = -1]
  /\ outcome' = [outcome EXCEPT ![t] = "none"]
  /\ ncalls' = [ncalls EXCEPT ![t] = @ + 1]
  /\ steps' = [steps EXCEPT ![t] = NoSteps]
  /\ clobbered' = [clobbered EXCEPT ![t] = FALSE]
  /\ UNCHANGED <<envVars, fs>>

\* importing code calls speak(text, lang, tld); the defaults of the signature
\* are among the values
Call(t) ==
  /\ mode = "import"
  /\ ncalls[t] < MaxCalls
  /\ \E text \in TextInputs, lang \in LangInputs, tld \in TldInputs :
       Enter(t, text, lang, tld)
  /\ UNCHANGED mainVars

\* a thread of importing code calls speak(text) once: lang and tld take the
\* defaults of the signature
CallDefault(t) ==
  /\ mode = "import"
  /\ ncalls[t] = 0
  /\ \E text \in TextInputs : Enter(t, text, DefaultLang, DefaultTld)
  /\ UNCHANGED mainVars

\* ------------------------------------------------------------ speak, line 5
\* variant: the player line is reached without the save line having run
CtorMutPlayFirst(t) ==
  /\ pc[t] = "ctor"
  /\ IF args[t].text = <<>>
       THEN /\ exc' = [exc EXCEPT ![t] = "AssertionError"]
            /\ pc' = [pc EXCEPT ![t] = "raise"]
       ELSE IF args[t].lang \notin SupportedLangs
         THEN /\ exc' = [exc EXCEPT ![t] = "ValueError"]
              /\ pc' = [pc EXCEPT ![t] = "raise"]
         ELSE /\ exc' = exc
              /\ pc' = [pc EXCEPT ![t] = "play"]
  /\ UNCHANGED <<mainVars, envVars, fs, args, fstate, player, cmd, atLaunch,
                 played, status, outcome, prev, ncalls, clobbered, steps>>

\* variant: the constructor is given lang_check=False
CtorMutNoLangCheck(t) ==
  /\ pc[t] = "ctor"
  /\ IF args[t].text = <<>>
       THEN /\ exc' = [exc EXCEPT ![t] = "AssertionError"]
            /\ pc' = [pc EXCEPT ![t] = "raise"]
       ELSE /\ exc' = exc
            /\ pc' = [pc EXCEPT ![t] = "open"]
  /\ UNCHANGED <<mainVars, envVars, fs, args, fstate, player, cmd, atLaunch,
                 played, status, outcome, prev, ncalls, clobbered, steps>>

\* tts = gTTS(text=text, lang=lang, tld=tld): the constructor asserts that the
\* text is not empty, then checks the language; it sends nothing
Ctor(t) ==
  /\ pc[t] = "ctor"
  /\ IF args[t].text = <<>>
       THEN /\ exc' = [exc EXCEPT ![t] = "AssertionError"]
            /\ pc' = [pc EXCEPT ![t] = "raise"]
       ELSE IF args[t].lang \notin SupportedLangs
         THEN /\ exc' = [exc EXCEPT ![t] = "ValueError"]
              /\ pc' = [pc EXCEPT ![t] = "raise"]
         ELSE /\ exc' = exc
              /\ pc' = [pc EXCEPT ![t] = "open"]
  /\ UNCHANGED <<mainVars, envVars, fs, args, fstate, player, cmd, atLaunch,
                 played, status, outcome, prev, ncalls, clobbered, steps>>

\* ------------------------------------------------------------ speak, line 6
\* variant: the file is opened for appending
SaveOpenMutAppend(t) ==
  /\ pc[t] = "open"
  /\ IF writable
       THEN /\ fs' = WriteFile(fs, SavePath, ReadFile(fs, SavePath))
            /\ fstate' = [fstate EXCEPT ![t] = "open"]
            /\ steps' = [steps EXCEPT ![t].open = @ + 1,
                                      ![t].off = Len(ReadFile(fs, SavePath))]
            /\ pc' = [pc EXCEPT ![t] = "request"]
            /\ exc' = exc
            /\ clobbered' = Interfere(t)
       ELSE /\ exc' = [exc EXCEPT ![t] = "PermissionError"]
            /\ pc' = [pc EXCEPT ![t] = "raise"]
            /\ UNCHANGED <<fs, fstate, steps, clobbered>>
  /\ UNCHANGED <<mainVars, envVars, args, player, cmd, atLaunch, played,
                 status, outcome, prev, ncalls>>

\* tts.save("__text_output.mp3"), first step: open(savefile, "wb") creates the
\* file or truncates it, before anything is requested from the service
SaveOpen(t) ==
  /\ pc[t] = "open"
  /\ IF writable
       THEN /\ fs' = WriteFile(fs, SavePath, <<>>)
            /\ fstate' = [fstate EXCEPT ![t] = "open"]
            /\ steps' = [steps EXCEPT ![t].open = @ + 1]
            /\ pc' = [pc EXCEPT ![t] = "request"]
            /\ exc' = exc
            /\ clobbered' = Interfere(t)
       ELSE /\ exc' = [exc EXCEPT ![t] = "PermissionError"]
            /\ pc' = [pc EXCEPT ![t] = "raise"]
            /\ UNCHANGED <<fs, fstate, steps, clobbered>>
  /\ UNCHANGED <<mainVars, envVars, args, player, cmd, atLaunch, played,
                 status, outcome, prev, ncalls>>

\* variant: a failed request is swallowed and the call goes on
SaveRequestMutSwallow(t) ==
  /\ pc[t] = "request"
  /\ IF ~HasSpeech(args[t].text)
       THEN /\ exc' = [exc EXCEPT ![t] = "AssertionError"]
            /\ fstate' = [fstate EXCEPT ![t] = "closed"]
            /\ pc' = [pc EXCEPT ![t] = "raise"]
            /\ steps' = steps
       ELSE /\ steps' = [steps EXCEPT ![t].req = @ + 1]
            /\ \/ /\ pc' = [pc EXCEPT ![t] = "write"]
                  /\ UNCHANGED <<exc, fstate>>
               \/ /\ exc' = [exc EXCEPT ![t] = "gTTSError"]
                  /\ fstate' = fstate
                  /\ pc' = [pc EXCEPT ![t] = "close"]
  /\ UNCHANGED <<mainVars, envVars, fs, args, player, cmd, atLaunch, played,
                 status, outcome, prev, ncalls, clobbered>>

\* variant: a failed request is sent again
SaveRequestMutRetry(t) ==
  /\ pc[t] = "request"
  /\ IF ~HasSpeech(args[t].text)
       THEN /\ exc' = [exc EXCEPT ![t] = "AssertionError"]
            /\ fstate' = [fstate EXCEPT ![t] = "closed"]
            /\ pc' = [pc EXCEPT ![t] = "raise"]
            /\ steps' = steps
       ELSE /\ steps' = [steps EXCEPT ![t].req = IF @ < 3 THEN @ + 1 ELSE @]
            /\ \/ /\ pc' = [pc EXCEPT ![t] = "write"]
                  /\ UNCHANGED <<exc, fstate>>
               \/ /\ pc' = pc
                  /\ UNCHANGED <<exc, fstate>>
  /\ UNCHANGED <<mainVars, envVars, fs, args, player, cmd, atLaunch, played,
                 status, outcome, prev, ncalls, clobbered>>

\* tts.save, second step (write_to_fp / stream): the text is tokenized, a text
\* with nothing to pronounce fails an assertion; otherwise one request is sent
\* and either answers with audio or fails with gTTSError.  On a failure the
\* with-block closes the file, which stays as open() left it
SaveRequest(t) ==
  /\ pc[t] = "request"
  /\ IF ~HasSpeech(args[t].text)
       THEN /\ exc' = [exc EXCEPT ![t] = "AssertionError"]
            /\ fstate' = [fstate EXCEPT ![t] = "closed"]
            /\ pc' = [pc EXCEPT ![t] = "raise"]
            /\ steps' = steps
       ELSE /\ steps' = [steps EXCEPT ![t].req = @ + 1]
            /\ \/ /\ pc' = [pc EXCEPT ![t] = "write"]
                  /\ UNCHANGED <<exc, fstate>>
               \/ /\ exc' = [exc EXCEPT ![t] = "gTTSError"]
                  /\ fstate' = [fstate EXCEPT ![t] = "closed"]
                  /\ pc' = [pc EXCEPT ![t] = "raise"]
  /\ UNCHANGED <<mainVars, envVars, fs, args, player, cmd, atLaunch, played,
                 status, outcome, prev, ncalls, clobbered>>

\* a write of chunk c at chunk offset off of the descriptor
WriteAt(content, off, c) ==
  IF off < Len(content) THEN [content EXCEPT ![off + 1] = c]
                        ELSE Append(content, c)

\* variant: the decoded audio is dropped instead of written
SaveWriteMutEmpty(t) ==
  /\ pc[t] = "write"
  /\ fs' = WriteFile(fs, SavePath, ReadFile(fs, SavePath))
  /\ steps' = [steps EXCEPT ![t].write = @ + 1]
  /\ pc' = [pc EXCEPT ![t] = "close"]
  /\ clobbered' = Interfere(t)
  /\ UNCHANGED <<mainVars, envVars, args, exc, fstate, player, cmd, atLaunch,
                 played, status, outcome, prev, ncalls>>

\* tts.save, third step: fp.write(decoded) puts the audio of the answer at the
\* descriptor's offset
SaveWrite(t) ==
  /\ pc[t] = "write"
  /\ fs' = WriteFile(fs, SavePath,
                     WriteAt(ReadFile(fs, SavePath), steps[t].off, Synth(args[t])))
  /\ steps' = [steps EXCEPT ![t].write = @ + 1, ![t].off = @ + 1]
  /\ pc' = [pc EXCEPT ![t] = "close"]
  /\ clobbered' = Interfere(t)
  /\ UNCHANGED <<mainVars, envVars, args, exc, fstate, player, cmd, atLaunch,
                 played, status, outcome, prev, ncalls>>

\* tts.save, last step: the with-block closes the file and save returns
SaveClose(t) ==
  /\ pc[t] = "close"
  /\ fstate' = [fstate EXCEPT ![t] = "closed"]
  /\ pc' = [pc EXCEPT ![t] = "play"]
  /\ UNCHANGED <<mainVars, envVars, fs, args, exc, player, cmd, atLaunch,
                 played, status, outcome, prev, ncalls, clobbered, steps>>

\* ------------------------------------------------------------ speak, line 7
\* variant: the command is started without waiting for it (Popen)
PlayLaunchMutNoWait(t) ==
  /\ pc[t] = "play"
  /\ steps' = [steps EXCEPT ![t].launch = @ + 1]
  /\ cmd' = [cmd EXCEPT ![t] = PlayerCommand(args[t])]
  /\ atLaunch' = [atLaunch EXCEPT ![t] = fs]
  /\ IF ffplayInstalled
       THEN /\ player' = [player EXCEPT ![t] = "running"]
            /\ status' = [status EXCEPT ![t] = 0]
            /\ pc' = [pc EXCEPT ![t] = "ret"]
       ELSE /\ player' = [player EXCEPT ![t] = "notfound"]
            /\ status' = [status EXCEPT ![t] = WaitStatus(ShellNotFound)]
            /\ pc' = [pc EXCEPT ![t] = "ret"]
  /\ UNCHANGED <<mainVars, envVars, fs, args, exc, fstate, played, outcome,
                 prev, ncalls, clobbered>>

\* os.system("ffplay -v 0 -nodisp -autoexit __text_output.mp3"), first step: the
\* shell is given the command; without ffplay on the search path the shell
\* exits with 127 and no player runs, otherwise the player process starts
PlayLaunch(t) ==
  /\ pc[t] = "play"
  /\ steps' = [steps EXCEPT ![t].launch = @ + 1]
  /\ cmd' = [cmd EXCEPT ![t] = PlayerCommand(args[t])]
  /\ atLaunch' = [atLaunch EXCEPT ![t] = fs]
  /\ IF ffplayInstalled
       THEN /\ player' = [player EXCEPT ![t] = "running"]
            /\ status' = status
            /\ pc' = [pc EXCEPT ![t] = "wait"]
       ELSE /\ player' = [player EXCEPT ![t] = "notfound"]
            /\ status' = [status EXCEPT ![t] = WaitStatus(ShellNotFound)]
            /\ pc' = [pc EXCEPT ![t] = "ret"]
  /\ UNCHANGED <<mainVars, envVars, fs, args, exc, fstate, played, outcome,
                 prev, ncalls, clobbered>>

\* the player process reads the file named by the last word of its command line
PlayerRead(t) ==
  /\ player[t] = "running"
  /\ played' = [played EXCEPT ![t] = ReadFile(fs, cmd[t][Len(cmd[t])])]
  /\ player' = [player EXCEPT ![t] = "played"]
  /\ UNCHANGED <<mainVars, envVars, fs, pc, args, exc, fstate, cmd, atLaunch,
                 status, outcome, prev, ncalls, clobbered, steps>>

\* the player process exits (-autoexit): with 1 when it found nothing to play,
\* with 0 or 1 otherwise (the playback itself can fail)
PlayerExit(t) ==
  /\ player[t] = "played"
  /\ \E code \in {0, 1} :
       /\ played[t] = <<>> => code = 1
       /\ status' = [status EXCEPT ![t] = WaitStatus(code)]
  /\ player' = [player EXCEPT ![t] = "exited"]
  /\ UNCHANGED <<mainVars, envVars, fs, pc, args, exc, fstate, cmd, atLaunch,
                 played, outcome, prev, ncalls, clobbered, steps>>

\* os.system, last step: the call returns once the command has exited; its
\* value, the wait status, is dropped by line 7 whatever it is
PlayWait(t) ==
  /\ pc[t] = "wait"
  /\ player[t] = "exited"
  /\ pc' = [pc EXCEPT ![t] = "ret"]
  /\ exc' = exc
  /\ UNCHANGED <<mainVars, envVars, fs, args, fstate, player, cmd, atLaunch,
                 played, status, outcome, prev, ncalls, clobbered, steps>>

\* speak falls off its end and returns None
Return(t) ==
  /\ pc[t] = "ret"
  /\ pc' = [pc EXCEPT ![t] = "idle"]
  /\ outcome' = [outcome EXCEPT ![t] = "returned"]
  /\ UNCHANGED <<mainVars, envVars, fs, args, exc, fstate, player, cmd,
                 atLaunch, played, status, prev, ncalls, clobbered, steps>>

\* no try/except in speak: the exception leaves speak as it was raised
Raise(t) ==
  /\ pc[t] = "raise"
  /\ pc' = [pc EXCEPT ![t] = "idle"]
  /\ outcome' = [outcome EXCEPT ![t] = "raised"]
  /\ UNCHANGED <<mainVars, envVars, fs, args, exc, fstate, player, cmd,
                 atLaunch, played, status, prev, ncalls, clobbered, steps>>

\* ------------------------------------------------------- __main__, lines 9-10
\* variant: the line is spoken with the defaults of the signature
MainInputMutDefaults ==
  /\ mode = "main"
  /\ mainpc = "input"
  /\ IF stdin = <<>>
       THEN /\ mainpc' = "exited"
            /\ exitCode' = 1
            /\ UNCHANGED <<stdin, envVars, fs, invVars>>
       ELSE /\ Enter(1, Head(stdin), DefaultLang, DefaultTld)
            /\ stdin' = Tail(stdin)
            /\ mainpc' = "speak"
            /\ exitCode' = exitCode
  /\ UNCHANGED <<mode, stdin0>>

\* speak(input(), "fr", "fr"): input() takes one line off standard input, or
\* raises EOFError when there is none (the interpreter then exits with 1)
MainInput ==
  /\ mode = "main"
  /\ mainpc = "input"
  /\ IF stdin = <<>>
       THEN /\ mainpc' = "exited"
            /\ exitCode' = 1
            /\ UNCHANGED <<stdin, envVars, fs, invVars>>
       ELSE /\ Enter(1, Head(stdin), MainLang, MainTld)
            /\ stdin' = Tail(stdin)
            /\ mainpc' = "speak"
            /\ exitCode' = exitCode
  /\ UNCHANGED <<mode, stdin0>>

\* the script ends: exit status 0 after speak returned, 1 after an uncaught
\* exception
MainExit ==
  /\ mode = "main"
  /\ mainpc = "speak"
  /\ pc[1] = "idle"
  /\ outcome[1] # "none"
  /\ mainpc' = "exited"
  /\ exitCode' = IF outcome[1] = "returned" THEN 0 ELSE 1
  /\ UNCHANGED <<mode, stdin, stdin0, envVars, fs, invVars>>

\* ---------------------------------------------------------- specifications
SpeakStep(t) ==
  \/ Ctor(t) \/ SaveOpen(t) \/ SaveRequest(t) \/ SaveWrite(t) \/ SaveClose(t)
  \/ PlayLaunch(t) \/ PlayerRead(t) \/ PlayerExit(t) \/ PlayWait(t)
  \/ Return(t) \/ Raise(t)

\* one caller: the direct run, or importing code calling speak in succession
Next ==
  \/ MainInput
  \/ MainExit
  \/ Call(1)
  \/ SpeakStep(1)

Spec == Init /\ [][Next]_vars

\* two threads of importing code, each calling speak once
InitConc ==
  /\ InitEnv
  /\ InitThreads
  /\ mode = "import"
  /\ mainpc = "off"
  /\ stdin = <<>>
  /\ stdin0 = stdin
  /\ exitCode = -1

NextConc == \E t \in Threads : CallDefault(t) \/ SpeakStep(t)

SpecConc == InitConc /\ [][NextConc]_vars

\* ------------------------------------------------------------------ claims
Called(t) == ncalls[t] > 0
Launched(t) == steps[t].launch > 0
OwnAudio(t) == <<Synth(args[t])>>

\* C1: the player is launched only after the write of __text_output.mp3 by
\* the same invocation has completed: wherever os.system has been reached, the
\* invocation's file has been opened, written and closed.
C1_PlayerAfterWrite ==
  \A t \in Threads :
    Launched(t) => /\ fstate[t] = "closed"
                   /\ steps[t].open = 1
                   /\ steps[t].write = 1
C1_Witness ==
  /\ player[1] = "running"
  /\ fstate[1] = "closed"
  /\ steps[1].write = 1

\* C2: for a non-empty text and a supported language, at the moment the player
\* is launched the file exists at the fixed path and holds, non-empty, the audio
\* synthesized for this request.
C2_FileReadyAtLaunch ==
  \A t \in Threads :
    (Launched(t) /\ args[t].text # <<>> /\ args[t].lang \in SupportedLangs) =>
       /\ FileExists(atLaunch[t], OutputFile)
       /\ ReadFile(atLaunch[t], OutputFile) # <<>>
       /\ ReadFile(atLaunch[t], OutputFile) = OwnAudio(t)
C2_Witness ==
  /\ Launched(1)
  /\ player[1] = "running"
  /\ args[1].text = <<"h", "i">>
  /\ ReadFile(atLaunch[1], OutputFile) = <<Synth(args[1])>>

\* C3: a successful call leaves exactly its own audio in the file, whatever
\* the file held before; so after two successful calls in succession the file
\* holds the second call's audio only, nothing of the first call's, which is
\* what the second call alone leaves.
C3_Overwrite ==
  (pc[1] = "idle" /\ outcome[1] = "returned") =>
     /\ ReadFile(fs, OutputFile) = OwnAudio(1)
     /\ Len(ReadFile(fs, OutputFile)) = 1
     /\ (prev[1].outcome = "returned" /\ prev[1].args # args[1]) =>
          \A i \in 1..Len(ReadFile(fs, OutputFile)) :
             ReadFile(fs, OutputFile)[i] # Synth(prev[1].args)
C3_Witness ==
  /\ pc[1] = "idle"
  /\ ncalls[1] = 2
  /\ outcome[1] = "returned"
  /\ prev[1].outcome = "returned"
  /\ prev[1].args # args[1]

\* C4: a call with an unsupported language code fails in the constructor: the
\* exception leaves speak, the file is not touched (so no empty file is left),
\* the player is not launched and the call never returns normally.
C4_UnsupportedLangRaises ==
  \A t \in Threads :
    (Called(t) /\ args[t].lang \notin SupportedLangs /\ pc[t] # "ctor") =>
       /\ pc[t] \in {"raise", "idle"}
       /\ exc[t] \in {"ValueError", "AssertionError"}
       /\ args[t].text # <<>> => exc[t] = "ValueError"
       /\ pc[t] = "idle" => outcome[t] = "raised"
       /\ steps[t] = NoSteps
       /\ fstate[t] = "none"
       /\ player[t] = "none"
C4_Witness ==
  /\ pc[1] = "idle"
  /\ args[1].lang = "zz"
  /\ args[1].text = <<"h", "i">>
  /\ outcome[1] = "raised"
  /\ exc[1] = "ValueError"

PlayerFailed(t) ==
  \/ player[t] = "notfound"
  \/ player[t] = "exited" /\ status[t] # 0

\* C5: every failure is propagated to the caller; in particular after a failed
\* player launch (ffplay missing, or a non-zero exit of the player) speak does
\* not complete normally and the direct run does not exit with status 0.
\* os.system reports the failure in its return value only, and line 7 drops it.
C5_AsStated ==
  \A t \in Threads :
    PlayerFailed(t) =>
       /\ outcome[t] # "returned"
       /\ (mode = "main" /\ mainpc = "exited") => exitCode # 0

\* C6: speak returns only after the player it launched has terminated: no
\* state has speak past os.system, or returned, with its player still running.
C6_BlocksUntilPlayerExit ==
  \A t \in Threads :
    (Launched(t) /\ pc[t] \in {"ret", "idle"}) =>
       /\ player[t] \in {"exited", "notfound"}
       /\ status[t] # -1
C6_Witness ==
  /\ pc[1] = "idle"
  /\ outcome[1] = "returned"
  /\ player[1] = "exited"
  /\ played[1] = <<Synth(args[1])>>

FixedCommand == <<"ffplay", "-v", "0", "-nodisp", "-autoexit", "__text_output.mp3">>

\* C7: for every text, lang and tld the player is launched with the same
\* command line: ffplay, the quiet flag (-v 0), -nodisp, -autoexit and the path
\* this invocation wrote; neither lang nor tld (nor the text) is a word of it.
C7_FixedCommandLine ==
  \A t \in Threads :
    Launched(t) =>
       /\ cmd[t] = FixedCommand
       /\ cmd[t][1] = "ffplay"
       /\ cmd[t][2] = "-v" /\ cmd[t][3] = "0"
       /\ cmd[t][4] = "-nodisp"
       /\ cmd[t][5] = "-autoexit"
       /\ cmd[t][Len(cmd[t])] = SavePath
       /\ FileExists(atLaunch[t], cmd[t][Len(cmd[t])])
       /\ \A i \in 1..Len(cmd[t]) : cmd[t][i] \notin {args[t].lang, args[t].tld}
C7_Witness ==
  /\ Launched(1)
  /\ ncalls[1] = 2
  /\ args[1].tld = "fr"
  /\ args[1].text = <<"y", "o">>
  /\ prev[1].args.text = <<"h", "i">>
  /\ cmd[1] = FixedCommand

\* C8: the direct run reads exactly one line from standard input before any
\* synthesis request, and (a line being there) makes exactly one invocation of
\* speak, with that line as text, "fr" as language and "fr" as domain.
C8_MainReadsOneLineSpeaksFrFr ==
  mode = "main" =>
     /\ mainpc = "input" => (stdin = stdin0 /\ ncalls[1] = 0 /\ steps[1].req = 0)
     /\ ncalls[1] <= 1
     /\ ncalls[2] = 0
     /\ Called(1) =>
          /\ stdin0 # <<>>
          /\ stdin = Tail(stdin0)
          /\ args[1] = [text |-> Head(stdin0), lang |-> "fr", tld |-> "fr"]
     /\ (mainpc # "input" /\ stdin0 # <<>>) => ncalls[1] = 1
C8_Witness ==
  /\ mode = "main"
  /\ mainpc = "exited"
  /\ Len(stdin0) = 2
  /\ Len(stdin) = 1
  /\ steps[1].req = 1
  /\ outcome[1] = "returned"
  /\ args[1].lang = "fr" /\ args[1].tld = "fr"

Read(t) == player[t] \in {"played", "exited"}

\* C9: with two concurrent invocations the player of one can read the other's
\* audio or a file still being written (the witness); an invocation whose file
\* no other invocation touched between its open and its player's read has its
\* player read exactly its own audio.
C9_RaceOnSharedFile ==
  \A t \in Threads :
    (Read(t) /\ ~clobbered[t]) => played[t] = OwnAudio(t)
C9_Witness ==
  /\ Read(1)
  /\ clobbered[1]
  /\ args[1].text # args[2].text
  /\ played[1] = <<Synth(args[2])>>

\* C10: one invocation is a single pass: at most one synthesis request, one
\* open and one write of the file and one player launch, each only after the
\* step before it succeeded; after a failure of synthesis or of the file write
\* the player is never launched.
C10_SingleLinearPass ==
  \A t \in Threads :
    /\ steps[t].req <= 1 /\ steps[t].open <= 1
    /\ steps[t].write <= 1 /\ steps[t].launch <= 1
    /\ steps[t].req = 1 => steps[t].open = 1
    /\ steps[t].write = 1 => steps[t].req = 1
    /\ steps[t].launch = 1 => (steps[t].write = 1 /\ fstate[t] = "closed")
    /\ exc[t] # "none" => (steps[t].launch = 0 /\ player[t] = "none")
    /\ Launched(t) => exc[t] = "none"
C10_Witness ==
  /\ pc[1] = "idle"
  /\ outcome[1] = "raised"
  /\ exc[1] = "gTTSError"
  /\ steps[1] = [req |-> 1, open |-> 1, write |-> 0, launch |-> 0, off |-> 0]
  /\ player[1] = "none"
====
